---- MODULE Spec2Model ----
(***************************************************************************)
(* Model of src/backend/main.py: the Walker constellation generator, the   *)
(* scenario registry, the request handlers (scenario, satellites,          *)
(* positions with chunking, compare), the server-sent-event position       *)
(* stream and the websocket playback loop.                                 *)
(*                                                                         *)
(* Numbers.  Python floats are modelled exactly where the claims read      *)
(* them: RAAN and true anomaly are fractions of a degree [num, den];       *)
(* eccentricity is in units of 1e-6, inclination and argument of           *)
(* periapsis in tenths of a degree, lengths in km, times in seconds.  A    *)
(* fractional time step is the fraction step_num / StepDen.                *)
(* random.random() is one of JitterLevels equally spaced values of [0, 1), *)
(* fixed by the generator state (seed, draw number); random.uniform scales *)
(* it into [lo, hi) and never returns hi.  Every materialization that     *)
(* draws leaves the generator in a state it was never in before.           *)
(* propagate_position is kept abstract: a sample records the elements and  *)
(* the time it was computed from, not the trigonometry.                    *)
(***************************************************************************)
EXTENDS Integers, Sequences, FiniteSets, TLC

VARIABLES SCENARIOS, now, rng, call, request, response, materializations,
          stream, pager, ws

vars == <<SCENARIOS, now, rng, call, request, response, materializations,
          stream, pager, ws>>

(***************************************************************************)
(* Bounds                                                                  *)
(***************************************************************************)
MaxPlanes == 11
MaxSats == 11
MaxSeed == 3
JitterLevels == 5000
MaxChunkSize == 1
BigChunk == 24
MaxChunkIndex == 3
MaxNegChunkIndex == 3
MaxDuration == 4
MaxStepNum == 5
StepDen == 2
TickSeconds == 1800
MaxNow == 1800
MaxPages == 30
MaxFrames == 3
MaxMessages == 3
JumpSeconds == 45

(***************************************************************************)
(* Program constants                                                       *)
(***************************************************************************)
EARTH_RADIUS_KM == 6371

\* None, where the other values are strings (an exception's name).
None == "None"

\* Optional[int]: None is the empty tuple, the integer n the tuple <<n>>.
NoInt == <<>>

Some(n) == <<n>>

\* The values of the parts of the state that hold nothing yet.
NoCall == [pc |-> "none"]

NoRequest == [op |-> "none"]

NoResponse == [op |-> "none", raised |-> None]

NoStream == [pc |-> "none"]

NoPager == [pc |-> "none"]

NoWs == [pc |-> "none"]

NoFrame == [timestamp |-> -1, positions |-> <<>>]

Seeds == 0..MaxSeed

Min(a, b) == IF a < b THEN a ELSE b

Max(a, b) == IF a > b THEN a ELSE b

(***************************************************************************)
(* random.random(): the n-th draw of the generator started at seed, as a   *)
(* level of 0..JitterLevels-1 (the value level / JitterLevels of [0, 1)).  *)
(* Successive draws of one state differ, and so do the draws of two states.*)
(***************************************************************************)
random_level(seed, n) == (1237 * seed + 617 * n) % JitterLevels

\* random.uniform(lo, hi) = lo + (hi - lo) * random(), in the unit of lo, hi.
random_uniform(seed, n, lo, hi) ==
    lo + ((hi - lo) * random_level(seed, n)) \div JitterLevels

(***************************************************************************)
(* Degrees as exact fractions.                                             *)
(***************************************************************************)
Deg(n, d) == [num |-> n, den |-> d]

DegMod360(x) == [num |-> x.num % (360 * x.den), den |-> x.den]

(***************************************************************************)
(* generate_constellation                                                  *)
(***************************************************************************)
\* f"{n:02d}": decimal, zero-padded to a minimum width of 2.
Format02d(n) == IF n < 10 THEN "0" \o ToString(n) ELSE ToString(n)

\* A fault: the number printed without padding.
sat_id_unpadded(name, plane, sat) ==
    name \o "-P" \o ToString(plane + 1) \o "-S" \o ToString(sat + 1)

sat_id(name, plane, sat) ==
    name \o "-P" \o Format02d(plane + 1) \o "-S" \o Format02d(sat + 1)

\* raan = (360.0 / num_planes) * plane
plane_raan(num_planes, plane) == Deg(360 * plane, num_planes)

\* A fault: the Walker inter-plane phasing term left out.
phase_offset_unphased(num_planes, sats_per_plane, plane, sat) ==
    Deg(360 * sat * num_planes, num_planes * sats_per_plane)

\* phase_offset = (360.0 / sats_per_plane) * sat + (360.0 / total_sats) * plane
phase_offset(num_planes, sats_per_plane, plane, sat) ==
    Deg(360 * sat * num_planes + 360 * plane, num_planes * sats_per_plane)

OrbitalElements(a, plane, sat) ==
    LET k == plane * a.sats_per_plane + sat
    IN  [semi_major_axis |-> EARTH_RADIUS_KM + a.altitude_km,
         eccentricity    |-> 1000 + random_uniform(a.seed, 3 * k, 0, 5000),
         inclination     |-> a.inclination
                               + random_uniform(a.seed, 3 * k + 1, -5, 5),
         raan            |-> plane_raan(a.num_planes, plane),
         arg_periapsis   |-> random_uniform(a.seed, 3 * k + 2, 0, 3600),
         true_anomaly    |-> DegMod360(phase_offset(a.num_planes,
                                          a.sats_per_plane, plane, sat))]

Satellite(a, plane, sat) ==
    LET id == sat_id(a.name, plane, sat)
    IN  [id               |-> id,
         name             |-> id,
         orbit_type       |-> a.orbit_type,
         orbital_elements |-> OrbitalElements(a, plane, sat),
         launch_date      |-> a.at,
         status           |-> "operational"]

\* The list after the first n iterations of the inner loop of one plane:
\* for sat in range(sats_per_plane): ... satellites.append(Satellite(...))
RECURSIVE sat_loop(_, _, _)
sat_loop(a, plane, n) ==
    IF n = 0 THEN <<>>
    ELSE Append(sat_loop(a, plane, n - 1), Satellite(a, plane, n - 1))

\* The list after the first n iterations of the outer loop:
\* for plane in range(num_planes): ...
RECURSIVE plane_loop(_, _)
plane_loop(a, n) ==
    IF n = 0 THEN <<>>
    ELSE plane_loop(a, n - 1) \o sat_loop(a, n - 1, Max(a.sats_per_plane, 0))

\* seed is the state of the random generator at the call, at the wall clock.
generate_constellation(name, num_planes, sats_per_plane, altitude_km, inclination, orbit_type, seed, at) ==
    plane_loop([name |-> name, num_planes |-> num_planes,
                sats_per_plane |-> sats_per_plane, altitude_km |-> altitude_km,
                inclination |-> inclination, orbit_type |-> orbit_type,
                seed |-> seed, at |-> at], Max(num_planes, 0))

\* The state of the random generator after the draws of one constellation:
\* a state it was never in before.
NextSeed(seed) == seed + 1

(***************************************************************************)
(* SCENARIOS and get_constellation_for_scenario                            *)
(***************************************************************************)
Scenario(id, name, satellite_count, duration_hours) ==
    [id |-> id, name |-> name, satellite_count |-> satellite_count,
     duration_hours |-> duration_hours, created_at |-> 0]

Registry ==
    [id \in {"starlink-subset", "gps-constellation", "iridium-next", "custom-mega"} |->
        CASE id = "starlink-subset" ->
                 Scenario(id, "Starlink Subset (550km Shell)", 72, 24)
          [] id = "gps-constellation" ->
                 Scenario(id, "GPS Constellation", 24, 48)
          [] id = "iridium-next" ->
                 Scenario(id, "Iridium NEXT", 66, 24)
          [] id = "custom-mega" ->
                 Scenario(id, "Mega Constellation Test", 540, 12)]

\* A fault: one shell generated with a plane count the registry does not state.
get_constellation_for_scenario_drift(scenario_id, seed, at) ==
    IF scenario_id = "starlink-subset"
    THEN generate_constellation("STRLK", 6, 12, 550, 530, "LEO", seed, at)
    ELSE IF scenario_id = "gps-constellation"
    THEN generate_constellation("GPS", 6, 4, 20200, 550, "MEO", seed, at)
    ELSE IF scenario_id = "iridium-next"
    THEN generate_constellation("IRID", 6, 12, 780, 864, "LEO", seed, at)
    ELSE IF scenario_id = "custom-mega"
    THEN generate_constellation("MEGA", 18, 30, 1200, 700, "LEO", seed, at)
    ELSE <<>>

get_constellation_for_scenario(scenario_id, seed, at) ==
    IF scenario_id = "starlink-subset"
    THEN generate_constellation("STRLK", 6, 12, 550, 530, "LEO", seed, at)
    ELSE IF scenario_id = "gps-constellation"
    THEN generate_constellation("GPS", 6, 4, 20200, 550, "MEO", seed, at)
    ELSE IF scenario_id = "iridium-next"
    THEN generate_constellation("IRID", 6, 11, 780, 864, "LEO", seed, at)
    ELSE IF scenario_id = "custom-mega"
    THEN generate_constellation("MEGA", 18, 30, 1200, 700, "LEO", seed, at)
    ELSE <<>>

\* The generator state after get_constellation_for_scenario(scenario_id):
\* the four shells draw, any other id returns [] without a draw.
SeedAfterOne(scenario_id, seed) ==
    IF scenario_id \in {"starlink-subset", "gps-constellation", "iridium-next", "custom-mega"}
    THEN NextSeed(seed)
    ELSE seed

\* One entry of the log of materializations a handler performed.
Materialized(scenario_id, seed, at) ==
    [scenario_id |-> scenario_id, at |-> at,
     satellites |-> get_constellation_for_scenario(scenario_id, seed, at)]

(***************************************************************************)
(* propagate_position, abstractly: what the sample was computed from.      *)
(***************************************************************************)
propagate_position(orbital_elements, time_offset_seconds) ==
    [elements |-> orbital_elements, time_offset |-> time_offset_seconds]

(***************************************************************************)
(* Python helpers                                                          *)
(***************************************************************************)
\* A slice bound as list slicing resolves it: negative counts from the end.
SliceBound(n, i) == IF i < 0 THEN Max(n + i, 0) ELSE Min(i, n)

\* A fault: the slice end taken one short.
PySlice_short(seq, start_idx, end_idx) ==
    LET lo == SliceBound(Len(seq), start_idx)
        hi == SliceBound(Len(seq), end_idx) - 1
    IN  IF lo < hi THEN SubSeq(seq, lo + 1, hi) ELSE <<>>

\* seq[start_idx:end_idx]
PySlice(seq, start_idx, end_idx) ==
    LET lo == SliceBound(Len(seq), start_idx)
        hi == SliceBound(Len(seq), end_idx)
    IN  IF lo < hi THEN SubSeq(seq, lo + 1, hi) ELSE <<>>

\* math.ceil(n / d) for d > 0
CeilDiv(n, d) == -((-n) \div d)

\* int(x) of the fraction num / den, den > 0: truncation toward zero.
IntOf(num, den) == IF num >= 0 THEN num \div den ELSE -((-num) \div den)

\* Truthiness of an Optional[int] query parameter.
Truthy(x) == x # NoInt /\ x[1] # 0

(***************************************************************************)
(* Request handlers, as functions of the request and the state they read.  *)
(***************************************************************************)
list_scenarios(registry) ==
    [op |-> "list_scenarios", raised |-> None,
     scenarios |-> {registry[id] : id \in DOMAIN registry}]

get_scenario(registry, scenario_id) ==
    IF scenario_id \notin DOMAIN registry
    THEN [op |-> "get_scenario", raised |-> None, found |-> FALSE,
          body |-> <<[error |-> "Scenario not found"], 404>>]
    ELSE [op |-> "get_scenario", raised |-> None, found |-> TRUE,
          body |-> registry[scenario_id]]

get_satellites(scenario_id, seed, at) ==
    LET satellites == get_constellation_for_scenario(scenario_id, seed, at)
    IN  [op |-> "get_satellites", raised |-> None,
         scenario_id |-> scenario_id,
         count |-> Len(satellites),
         satellites |-> satellites]

PositionOf(sat, time_offset) ==
    [id |-> sat.id, name |-> sat.name, orbit_type |-> sat.orbit_type,
     pos |-> propagate_position(sat.orbital_elements, time_offset)]

\* The handler's answer and the materializations it performed, in order.
\* seed is the generator state at the first materialization; the second one
\* (the length for total_chunks) draws from the state after it.
get_positions(scenario_id, time_offset, chunk_size, chunk_index, seed, at) ==
    LET first == Materialized(scenario_id, seed, at)
        second == Materialized(scenario_id, SeedAfterOne(scenario_id, seed), at)
        start_idx == chunk_index * chunk_size[1]
        end_idx == start_idx + chunk_size[1]
        satellites == IF Truthy(chunk_size)
                      THEN PySlice(first.satellites, start_idx, end_idx)
                      ELSE first.satellites
        total_chunks == IF Truthy(chunk_size)
                        THEN CeilDiv(Len(second.satellites), chunk_size[1])
                        ELSE 1
        positions == [k \in 1..Len(satellites) |->
                         PositionOf(satellites[k], time_offset)]
    IN  [response |->
            [op |-> "get_positions", raised |-> None,
             scenario_id |-> scenario_id,
             time_offset_seconds |-> time_offset,
             count |-> Len(positions),
             positions |-> positions,
             meta |-> [chunk_index |-> IF Truthy(chunk_size) THEN chunk_index
                                       ELSE 0,
                       total_chunks |-> total_chunks,
                       chunk_size |-> chunk_size]],
         materializations |->
            IF Truthy(chunk_size) THEN <<first, second>> ELSE <<first>>]

\* The aggregate of one scenario; min() and max() of an empty list raise.
Aggregate(metric, satellites, time_offset) ==
    IF Len(satellites) = 0 THEN [raised |-> "ValueError"]
    ELSE IF metric = "altitude" THEN [raised |-> None, unit |-> "km"]
    ELSE IF metric = "velocity" THEN [raised |-> None, unit |-> "km/s"]
    ELSE [raised |-> None, unit |-> "degrees",
          satellite_count |-> Len(satellites)]

\* for scenario_id in ids: ... ; i is the position in the list, seed the
\* generator state before the i-th id.
RECURSIVE compare_loop(_, _, _, _, _, _, _, _)
compare_loop(registry, ids, i, metric, time_offset, seed, at, comparison) ==
    IF i > Len(ids) THEN [raised |-> None, comparison |-> comparison]
    ELSE IF ids[i] \notin DOMAIN registry
    THEN compare_loop(registry, ids, i + 1, metric, time_offset, seed, at, comparison)
    ELSE LET satellites == get_constellation_for_scenario(ids[i], seed, at)
             agg == Aggregate(metric, satellites, time_offset)
         IN  IF agg.raised # None
             THEN [raised |-> agg.raised, comparison |-> comparison]
             ELSE compare_loop(registry, ids, i + 1, metric, time_offset,
                      SeedAfterOne(ids[i], seed), at,
                      [x \in (DOMAIN comparison) \cup {ids[i]} |->
                          IF x = ids[i] THEN agg ELSE comparison[x]])

\* ids: scenario_ids split at the commas and stripped.
compare_scenarios(registry, ids, time_offset, metric, seed, at) ==
    LET r == compare_loop(registry, ids, 1, metric, time_offset, seed, at, <<>>)
    IN  [op |-> "compare_scenarios", raised |-> r.raised, metric |-> metric,
         time_offset_seconds |-> time_offset, comparison |-> r.comparison]

\* The registered ids of a list, in order: those compare materializes.
RECURSIVE RegisteredOf(_, _)
RegisteredOf(registry, ids) ==
    IF ids = <<>> THEN <<>>
    ELSE IF Head(ids) \in DOMAIN registry
    THEN <<Head(ids)>> \o RegisteredOf(registry, Tail(ids))
    ELSE RegisteredOf(registry, Tail(ids))

\* The generator state after the materializations of the first k ids of a
\* list, in order.
RECURSIVE SeedAfter(_, _, _)
SeedAfter(seed, ids, k) ==
    IF k = 0 THEN seed
    ELSE SeedAfterOne(ids[k], SeedAfter(seed, ids, k - 1))

(***************************************************************************)
(* generate_position_stream: the async generator behind stream_positions.  *)
(* time_step is the fraction step_num / StepDen.  pc is "created" before   *)
(* the first __anext__, "yielded" while suspended at the yield, "done"     *)
(* after the loop ended and "raised" after an exception left the body.     *)
(***************************************************************************)
StreamCreated(scenario_id, duration_seconds, step_num) ==
    [pc |-> "created", scenario_id |-> scenario_id,
     duration_seconds |-> duration_seconds, step_num |-> step_num,
     satellites |-> <<>>, t |-> 0, timestamps |-> <<>>, frame |-> NoFrame,
     raised |-> None]

\* t in range(0, stop, step), for a t the range has reached
RangeHas(t, stop, step) == IF step > 0 THEN t < stop ELSE t > stop

Frame(satellites, t) ==
    [timestamp |-> t,
     positions |-> [k \in 1..Len(satellites) |->
                      [id |-> satellites[k].id,
                       pos |-> propagate_position(satellites[k].orbital_elements, t)]]]

\* The loop body at t, or the end of the loop.
StreamResume(st, satellites, t) ==
    LET step == IntOf(st.step_num, StepDen)
    IN  IF RangeHas(t, st.duration_seconds, step)
        THEN [st EXCEPT !.pc = "yielded", !.satellites = satellites,
                        !.t = t + step,
                        !.timestamps = Append(@, t),
                        !.frame = Frame(satellites, t)]
        ELSE [st EXCEPT !.pc = "done", !.satellites = satellites]

\* One __anext__ of the generator: from where it is to the next yield, the
\* end, or the exception (range() arg 3 must not be zero).
generate_position_stream(st, seed, at) ==
    IF st.pc = "created"
    THEN IF IntOf(st.step_num, StepDen) = 0
         THEN [st EXCEPT !.pc = "raised", !.raised = "ValueError",
                         !.satellites =
                            get_constellation_for_scenario(st.scenario_id, seed, at)]
         ELSE StreamResume(st, get_constellation_for_scenario(st.scenario_id, seed, at), 0)
    ELSE StreamResume(st, st.satellites, st.t)

(***************************************************************************)
(* Spec: a client sends one request at a time; the handler answers it.     *)
(* The handlers have no suspension point, so each is one step.  A stream   *)
(* is consumed frame by frame until it ends or the client sends anew.      *)
(***************************************************************************)
UnknownIds == {"no-such-scenario"}

RequestIds == (DOMAIN Registry) \cup UnknownIds

ChunkSizes == (1..MaxChunkSize) \cup {BigChunk, BigChunk + 1}

ChunkIndexes == (-MaxNegChunkIndex)..MaxChunkIndex

TimeOffsets == {0, 90}

Metrics == {"coverage", "altitude", "velocity"}

IdLists == {<<>>} \cup {<<a>> : a \in RequestIds}
              \cup {<<a, b>> : a \in RequestIds, b \in RequestIds}

Requests ==
    {[op |-> "list_scenarios"]}
    \cup {[op |-> "get_scenario", scenario_id |-> id] : id \in RequestIds}
    \cup {[op |-> "get_satellites", scenario_id |-> id] : id \in RequestIds}
    \cup {[op |-> "get_positions", scenario_id |-> id, time_offset |-> t,
           chunk_size |-> c, chunk_index |-> 0] :
             id \in RequestIds, t \in TimeOffsets, c \in {NoInt, Some(0)}}
    \cup {[op |-> "get_positions", scenario_id |-> id, time_offset |-> t,
           chunk_size |-> Some(c), chunk_index |-> i] :
             id \in RequestIds, t \in TimeOffsets, c \in ChunkSizes,
             i \in ChunkIndexes}
    \cup {[op |-> "compare_scenarios", ids |-> l, metric |-> m] :
             l \in IdLists, m \in Metrics}
    \cup {[op |-> "stream_positions", scenario_id |-> id, duration |-> d,
           step_num |-> n] :
             id \in RequestIds, d \in 0..MaxDuration, n \in 1..MaxStepNum}

Init ==
    /\ SCENARIOS = Registry
    /\ now = 0
    /\ rng = 0
    /\ call = NoCall
    /\ request = NoRequest
    /\ response = NoResponse
    /\ materializations = <<>>
    /\ stream = NoStream
    /\ pager = NoPager
    /\ ws = NoWs

Tick ==
    /\ now + TickSeconds <= MaxNow
    /\ now' = now + TickSeconds
    /\ UNCHANGED <<SCENARIOS, rng, call, request, response, materializations,
                   stream, pager, ws>>

\* A request arrives.
ClientSend ==
    /\ request = NoRequest
    /\ rng < MaxSeed
    /\ \E r \in Requests : request' = r
    /\ UNCHANGED <<SCENARIOS, now, rng, call, response, materializations,
                   stream, pager, ws>>

\* The client has read the answer, or drops the stream it was reading.
ClientClose ==
    /\ response # NoResponse
    /\ request' = NoRequest
    /\ response' = NoResponse
    /\ materializations' = <<>>
    /\ stream' = NoStream
    /\ UNCHANGED <<SCENARIOS, now, rng, call, pager, ws>>

Pending(op) == request.op = op /\ response = NoResponse

HandleListScenarios ==
    /\ Pending("list_scenarios")
    /\ response' = list_scenarios(SCENARIOS)
    /\ UNCHANGED <<SCENARIOS, now, rng, call, request, materializations,
                   stream, pager, ws>>

HandleGetScenario ==
    /\ Pending("get_scenario")
    /\ response' = get_scenario(SCENARIOS, request.scenario_id)
    /\ UNCHANGED <<SCENARIOS, now, rng, call, request, materializations,
                   stream, pager, ws>>

HandleGetSatellites ==
    /\ Pending("get_satellites")
    /\ response' = get_satellites(request.scenario_id, rng, now)
    /\ materializations' = <<Materialized(request.scenario_id, rng, now)>>
    /\ rng' = SeedAfterOne(request.scenario_id, rng)
    /\ UNCHANGED <<SCENARIOS, now, call, request, stream, pager, ws>>

HandleGetPositions ==
    /\ Pending("get_positions")
    /\ LET out == get_positions(request.scenario_id, request.time_offset,
                      request.chunk_size, request.chunk_index, rng, now)
       IN  /\ response' = out.response
           /\ materializations' = out.materializations
           /\ rng' = SeedAfter(rng, [k \in 1..Len(out.materializations) |->
                                         out.materializations[k].scenario_id],
                                Len(out.materializations))
    /\ UNCHANGED <<SCENARIOS, now, call, request, stream, pager, ws>>

HandleCompareScenarios ==
    /\ Pending("compare_scenarios")
    /\ response' = compare_scenarios(SCENARIOS, request.ids, 0, request.metric,
                       rng, now)
    /\ LET known == RegisteredOf(SCENARIOS, request.ids)
       IN  /\ materializations' =
                 [k \in 1..Len(known) |->
                     Materialized(known[k], SeedAfter(rng, known, k - 1), now)]
           /\ rng' = SeedAfter(rng, known, Len(known))
    /\ UNCHANGED <<SCENARIOS, now, call, request, stream, pager, ws>>

\* stream_positions returns the StreamingResponse around the new generator.
HandleStreamPositions ==
    /\ Pending("stream_positions")
    /\ response' = [op |-> "stream_positions", raised |-> None,
                    media_type |-> "text/event-stream"]
    /\ stream' = StreamCreated(request.scenario_id, request.duration,
                               request.step_num)
    /\ UNCHANGED <<SCENARIOS, now, rng, call, request, materializations,
                   pager, ws>>

\* The transport pulls the next frame from the generator.
StreamNext ==
    /\ stream.pc \in {"created", "yielded"}
    /\ stream' = generate_position_stream(stream, rng, now)
    /\ IF stream.pc = "created"
       THEN /\ materializations' = <<Materialized(stream.scenario_id, rng, now)>>
            /\ rng' = SeedAfterOne(stream.scenario_id, rng)
       ELSE UNCHANGED <<materializations, rng>>
    /\ UNCHANGED <<SCENARIOS, now, call, request, response, pager, ws>>

Next ==
    \/ Tick
    \/ ClientSend
    \/ ClientClose
    \/ HandleListScenarios
    \/ HandleGetScenario
    \/ HandleGetSatellites
    \/ HandleGetPositions
    \/ HandleCompareScenarios
    \/ HandleStreamPositions
    \/ StreamNext

Spec == Init /\ [][Next]_vars

(***************************************************************************)
(* Claims about the request handlers                                       *)
(***************************************************************************)
\* The cache time-to-live the specification states, in seconds.
TTL == 3600

Ids(list) == [k \in 1..Len(list) |-> list[k].id]

Chunked == response.op = "get_positions" /\ Truthy(request.chunk_size)

\* C10: the registry is never changed by a handler, and every
\* materialization of a registered scenario returns as many satellites as the
\* registry entry's satellite_count states.
C10_RegistryCountAgreement ==
    /\ SCENARIOS = Registry
    /\ \A k \in 1..Len(materializations) :
          LET m == materializations[k]
          IN  m.scenario_id \in DOMAIN SCENARIOS =>
                 Len(m.satellites) = SCENARIOS[m.scenario_id].satellite_count
    /\ (response.op = "get_satellites"
          /\ response.scenario_id \in DOMAIN SCENARIOS) =>
             response.count = SCENARIOS[response.scenario_id].satellite_count

C10_Witness ==
    /\ response.op = "get_satellites"
    /\ response.scenario_id = "custom-mega"
    /\ response.count = 540
    /\ Len(materializations) = 1
    /\ Len(materializations[1].satellites) = 540
    /\ now > 0

\* C5 (as claimed): two materializations of one scenario id less than the
\* TTL apart return the identical satellite set.
C5_CachedWithinTtl ==
    \A i, j \in 1..Len(materializations) :
       LET a == materializations[i]
           b == materializations[j]
       IN  (i < j /\ a.scenario_id = b.scenario_id /\ b.at - a.at < TTL) =>
              b.satellites = a.satellites

\* C7 (as claimed): for every chunk size >= 1 and every integer chunk index,
\* a satellite is in the response iff its index i in the full list satisfies
\* chunk_index * chunk_size <= i < chunk_index * chunk_size + chunk_size.
C7_ExactSliceAnyIndex ==
    (Chunked /\ request.chunk_size[1] >= 1) =>
        LET all == materializations[1].satellites
            lo == request.chunk_index * request.chunk_size[1]
            hi == lo + request.chunk_size[1]
            got == {response.positions[k].id : k \in 1..Len(response.positions)}
        IN  \A i \in 0..(Len(all) - 1) :
               (all[i + 1].id \in got) <=> (lo <= i /\ i < hi)

\* C3 (as claimed): for every duration >= 0 and every step > 0, integer or
\* fractional, the stream emits the frames of timestamps 0, step, 2*step, ...
\* below the duration, one each and in order, then ends; each frame has one
\* sample per satellite of the scenario.
C3_StreamTimestamps ==
    stream.pc # "none" =>
        /\ stream.pc # "raised"
        /\ \A k \in 1..Len(stream.timestamps) :
              stream.timestamps[k] * StepDen = (k - 1) * stream.step_num
        /\ stream.pc = "yielded" =>
              Ids(stream.frame.positions) = Ids(stream.satellites)
        /\ stream.pc = "done" =>
              Len(stream.timestamps)
                 = CeilDiv(stream.duration_seconds * StepDen, stream.step_num)

\* C6 (as claimed): for a scenario id that is not registered no operation
\* raises: get-scenario answers not found, list-satellites and get-positions
\* an empty list with count 0, compare leaves the id out, and the stream
\* emits only frames with no positions.
C6_UnknownScenarioNeverRaises ==
    /\ (response.op = "get_scenario" /\ request.scenario_id \in UnknownIds) =>
          (response.raised = None /\ ~response.found)
    /\ (response.op = "get_satellites" /\ request.scenario_id \in UnknownIds) =>
          (response.raised = None /\ response.count = 0
             /\ response.satellites = <<>>)
    /\ (response.op = "get_positions" /\ request.scenario_id \in UnknownIds) =>
          (response.raised = None /\ response.count = 0
             /\ response.positions = <<>>)
    /\ response.op = "compare_scenarios" =>
          (response.raised = None
             /\ UnknownIds \cap (DOMAIN response.comparison) = {})
    /\ (stream.pc # "none" /\ stream.scenario_id \in UnknownIds) =>
          (stream.raised = None /\ stream.frame.positions = <<>>)

(***************************************************************************)
(* SpecPage: a client reads a scenario chunk by chunk: chunk 0 first, then *)
(* the chunks up to the total_chunks the answers report.  Every fetch is   *)
(* the get_positions handler of Spec.                                      *)
(***************************************************************************)
InitPage ==
    /\ SCENARIOS = Registry
    /\ now = 0
    /\ rng = 0
    /\ call = NoCall
    /\ request = NoRequest
    /\ response = NoResponse
    /\ materializations = <<>>
    /\ stream = NoStream
    /\ pager = NoPager
    /\ ws = NoWs

PagerStart ==
    /\ pager.pc = "none"
    /\ \E id \in RequestIds, c \in ChunkSizes :
          pager' = [pc |-> "paging", scenario_id |-> id, chunk_size |-> c,
                    chunk_index |-> 0, total_chunks |-> 0, ids |-> <<>>,
                    sizes |-> <<>>]
    /\ UNCHANGED <<SCENARIOS, now, rng, call, request, response,
                   materializations, stream, ws>>

PagerSend ==
    /\ pager.pc = "paging"
    /\ pager.chunk_index < MaxPages
    /\ request = NoRequest
    /\ request' = [op |-> "get_positions", scenario_id |-> pager.scenario_id,
                   time_offset |-> 0, chunk_size |-> Some(pager.chunk_size),
                   chunk_index |-> pager.chunk_index]
    /\ UNCHANGED <<SCENARIOS, now, rng, call, response, materializations,
                   stream, pager, ws>>

PagerReceive ==
    /\ pager.pc = "paging"
    /\ response.op = "get_positions"
    /\ pager' = [pager EXCEPT
                   !.ids = @ \o Ids(response.positions),
                   !.sizes = Append(@, response.count),
                   !.total_chunks = response.meta.total_chunks,
                   !.chunk_index = @ + 1,
                   !.pc = IF pager.chunk_index + 1 >= response.meta.total_chunks
                          THEN "done" ELSE "paging"]
    /\ request' = NoRequest
    /\ response' = NoResponse
    /\ materializations' = <<>>
    /\ UNCHANGED <<SCENARIOS, now, rng, call, stream, ws>>

NextPage ==
    \/ PagerStart
    \/ PagerSend
    \/ HandleGetPositions
    \/ PagerReceive

SpecPage == InitPage /\ [][NextPage]_vars

\* C1: for a registered scenario and a chunk size c >= 1, the chunks 0 to
\* total_chunks - 1 concatenated are the identifiers of the full satellite
\* list, each once and in generation order; only the last chunk may hold
\* fewer than c entries.
C1_ChunksReconstructList ==
    (pager.pc # "none" /\ pager.scenario_id \in DOMAIN SCENARIOS) =>
        /\ \A k \in 1..Len(pager.sizes) :
              (k < Len(pager.sizes) \/ pager.pc = "paging") =>
                 pager.sizes[k] = pager.chunk_size
        /\ pager.pc = "done" =>
              /\ pager.chunk_index = pager.total_chunks
              /\ pager.sizes[Len(pager.sizes)] <= pager.chunk_size
              /\ pager.ids = Ids(get_constellation_for_scenario(pager.scenario_id, 0, 0))
              /\ \A i, j \in 1..Len(pager.ids) : i # j => pager.ids[i] # pager.ids[j]

C1_Witness ==
    /\ pager.pc = "done"
    /\ pager.scenario_id = "starlink-subset"
    /\ pager.chunk_size = BigChunk + 1
    /\ Len(pager.sizes) = 3
    /\ pager.sizes[3] < pager.chunk_size
    /\ Len(pager.ids) = 72

(***************************************************************************)
(* SpecWS: websocket_positions.  An iteration of the loop is two steps:    *)
(* the wait for a client message (a message, the timeout or the            *)
(* disconnect) up to the frame handed to send_json, where the handler is   *)
(* suspended (other handlers may run then; they share no state with this  *)
(* one but the random generator); then the return of send_json with the   *)
(* advance of the offset, or its disconnect.  The fields base, since, msgs *)
(* and paused record the history the claims speak of: the last time_offset *)
(* received, the frames sent since, the messages received and whether the  *)
(* last one said pause.                                                    *)
(***************************************************************************)
Message(time_offset, command) == [time_offset |-> time_offset, command |-> command]

Messages ==
    {Message(t, c) : t \in {NoInt, Some(0), Some(JumpSeconds)},
                     c \in {None, "pause", "play"}}

\* The state after accept() and the materialization.
ws_accept(scenario_id, seed, at) ==
    [pc |-> "open", scenario_id |-> scenario_id,
     satellites |-> get_constellation_for_scenario(scenario_id, seed, at),
     time_offset |-> 0, pending |-> NoFrame, frame |-> NoFrame, sent |-> 0,
     raised |-> None, base |-> 0, since |-> 0, msgs |-> 0, paused |-> FALSE]

\* The frame at time_offset is built and handed to send_json; the coroutine
\* is suspended there.
ws_send(w) ==
    [w EXCEPT !.pc = "sending", !.pending = Frame(w.satellites, w.time_offset)]

\* A fault: the offset not advanced after the frame.
ws_advance_stuck(w) ==
    [w EXCEPT !.pc = "open", !.frame = w.pending, !.pending = NoFrame,
              !.sent = @ + 1, !.since = @ + 1]

\* send_json returned: time_offset += 60, then the sleep and the next wait.
ws_advance(w) ==
    [w EXCEPT !.pc = "open", !.frame = w.pending, !.pending = NoFrame,
              !.sent = @ + 1, !.since = @ + 1,
              !.time_offset = @ + 60]

\* The message handling of one iteration, up to the continue or the send.
ws_receive(w, data) ==
    LET jumped == IF data.time_offset # NoInt
                  THEN [w EXCEPT !.time_offset = data.time_offset[1],
                                 !.base = data.time_offset[1], !.since = 0]
                  ELSE w
        noted == [jumped EXCEPT !.msgs = @ + 1,
                                !.paused = (data.command = "pause")]
    IN  IF data.command = "pause" THEN noted ELSE ws_send(noted)

InitWS ==
    /\ SCENARIOS = Registry
    /\ now = 0
    /\ rng = 0
    /\ call = NoCall
    /\ request = NoRequest
    /\ response = NoResponse
    /\ materializations = <<>>
    /\ stream = NoStream
    /\ pager = NoPager
    /\ ws = NoWs

WsAccept ==
    /\ ws.pc = "none"
    /\ \E id \in RequestIds :
          /\ ws' = ws_accept(id, rng, now)
          /\ materializations' = <<Materialized(id, rng, now)>>
          /\ rng' = SeedAfterOne(id, rng)
    /\ UNCHANGED <<SCENARIOS, now, call, request, response, stream, pager>>

\* receive_json returned a message within the timeout.
WsMessage ==
    /\ ws.pc = "open"
    /\ ws.msgs < MaxMessages
    /\ ws.sent < MaxFrames
    /\ \E data \in Messages : ws' = ws_receive(ws, data)
    /\ UNCHANGED <<SCENARIOS, now, rng, call, request, response,
                   materializations, stream, pager>>

\* asyncio.TimeoutError: no message; the frame goes to send_json.
WsTimeout ==
    /\ ws.pc = "open"
    /\ ws.sent < MaxFrames
    /\ ws' = ws_send(ws)
    /\ UNCHANGED <<SCENARIOS, now, rng, call, request, response,
                   materializations, stream, pager>>

\* send_json returns and the handler advances its offset.
WsSendReturns ==
    /\ ws.pc = "sending"
    /\ ws' = ws_advance(ws)
    /\ UNCHANGED <<SCENARIOS, now, rng, call, request, response,
                   materializations, stream, pager>>

\* send_json raises WebSocketDisconnect: the frame is not sent, the offset
\* not advanced, and the exception is caught.
WsSendDisconnect ==
    /\ ws.pc = "sending"
    /\ ws' = [ws EXCEPT !.pc = "closed", !.pending = NoFrame]
    /\ UNCHANGED <<SCENARIOS, now, rng, call, request, response,
                   materializations, stream, pager>>

\* receive_json raises WebSocketDisconnect, which leaves the loop and is
\* caught.
WsDisconnect ==
    /\ ws.pc = "open"
    /\ ws' = [ws EXCEPT !.pc = "closed"]
    /\ UNCHANGED <<SCENARIOS, now, rng, call, request, response,
                   materializations, stream, pager>>

NextWS ==
    \/ WsAccept
    \/ WsMessage
    \/ WsTimeout
    \/ WsSendReturns
    \/ WsSendDisconnect
    \/ WsDisconnect

SpecWS == InitWS /\ [][NextWS]_vars

\* C9: every frame sent carries the most recent time_offset received (0 if
\* none) plus 60 times the number of frames sent since that message, before
\* this one; the loop ends at the disconnect without raising.
C9_FrameTimestamps ==
    ws.pc # "none" =>
        /\ ws.raised = None
        /\ ws.since <= ws.sent
        /\ ws.since > 0 => ws.frame.timestamp = ws.base + 60 * (ws.since - 1)
        /\ ws.sent > 0 => Ids(ws.frame.positions) = Ids(ws.satellites)
        /\ ws.time_offset = ws.base + 60 * ws.since
        /\ ws.pc = "sending" =>
              /\ ws.pending.timestamp = ws.base + 60 * ws.since
              /\ Ids(ws.pending.positions) = Ids(ws.satellites)

C9_Witness ==
    /\ ws.pc = "closed"
    /\ ws.base = JumpSeconds
    /\ ws.since = 2
    /\ ws.sent = 3
    /\ ws.frame.timestamp = JumpSeconds + 60
    /\ Len(ws.frame.positions) = 24

\* C4 (as claimed): once a message with command "pause" was pushed, and
\* until the next control message, no frame is sent and the held offset does
\* not advance, on this and all following ticks.
C4_PauseSuspends ==
    [][(ws.pc \in {"open", "sending"} /\ ws.paused /\ ws'.msgs = ws.msgs)
          => (ws'.pc # "sending" /\ ws'.sent = ws.sent
              /\ ws'.time_offset = ws.time_offset)]_vars

(***************************************************************************)
(* SpecGen: generate_constellation as a pure function of bounded inputs.   *)
(***************************************************************************)
Prefixes == {"GPS", "STRLK"}

InitGen ==
    /\ SCENARIOS = Registry
    /\ now = 0
    /\ rng = 0
    /\ request = NoRequest
    /\ response = NoResponse
    /\ materializations = <<>>
    /\ stream = NoStream
    /\ pager = NoPager
    /\ ws = NoWs
    /\ \E name \in Prefixes, P \in 0..MaxPlanes, S \in 0..MaxSats, seed \in Seeds :
          call = [pc |-> "call", name |-> name, num_planes |-> P,
                  sats_per_plane |-> S, seed |-> seed, result |-> <<>>]

CallGenerateConstellation ==
    /\ call.pc = "call"
    /\ call' = [call EXCEPT !.pc = "done",
                  !.result = generate_constellation(call.name, call.num_planes,
                                 call.sats_per_plane, 550, 530, "LEO",
                                 call.seed, now)]
    /\ UNCHANGED <<SCENARIOS, now, rng, request, response, materializations,
                   stream, pager, ws>>

NextGen == CallGenerateConstellation

SpecGen == InitGen /\ [][NextGen]_vars

(***************************************************************************)
(* Claims about generate_constellation                                     *)
(***************************************************************************)
Digit == <<"0", "1", "2", "3", "4", "5", "6", "7", "8", "9">>

\* The documented two-digit field, written digit by digit.
TwoDigits(n) == Digit[(n \div 10) + 1] \o Digit[(n % 10) + 1]

DocumentedId(prefix, plane, sat) ==
    prefix \o "-P" \o TwoDigits(plane + 1) \o "-S" \o TwoDigits(sat + 1)

GenDone == call.pc = "done"

\* C2: generate_constellation(prefix, P, S, ...) returns exactly P*S
\* satellites, plane-major then satellite, with pairwise distinct identifiers
\* {prefix}-P{plane+1:02}-S{sat+1:02}, whatever the random jitter.
C2_GenerateCountAndIds ==
    GenDone =>
        LET P == call.num_planes
            S == call.sats_per_plane
            r == call.result
        IN  /\ Len(r) = P * S
            /\ \A k \in 1..Len(r) :
                  /\ r[k].id = DocumentedId(call.name, (k - 1) \div S, (k - 1) % S)
                  /\ r[k].name = r[k].id
            /\ \A i, j \in 1..Len(r) : i # j => r[i].id # r[j].id

C2_Witness ==
    /\ GenDone
    /\ call.num_planes >= 10
    /\ call.sats_per_plane >= 10
    /\ Len(call.result) = call.num_planes * call.sats_per_plane
    /\ call.seed > 0

\* Equality of two fractions of a degree.
DegEq(x, y) == x.num * y.den = y.num * x.den

\* C8: for plane p and satellite s the RAAN is 360*p/P and the true anomaly
\* is (360*s/S + 360*p/(P*S)) mod 360, in [0, 360); satellites of one plane
\* share the RAAN and consecutive ones are 360/S degrees apart (mod 360);
\* neither value depends on the random jitter.
C8_WalkerPhasing ==
    GenDone =>
        LET P == call.num_planes
            S == call.sats_per_plane
            r == call.result
            oe(k) == r[k].orbital_elements
        IN  \A k \in 1..Len(r) :
               LET p == (k - 1) \div S
                   s == (k - 1) % S
                   ta == oe(k).true_anomaly
               IN  /\ oe(k).raan.num * P = 360 * p * oe(k).raan.den
                   /\ ta.num * (P * S)
                        = ((360 * s * P + 360 * p) % (360 * P * S)) * ta.den
                   /\ ta.num >= 0
                   /\ ta.num < 360 * ta.den
                   /\ (s + 1 < S /\ k + 1 <= Len(r)) =>
                        LET tb == oe(k + 1).true_anomaly
                        IN  /\ DegEq(oe(k + 1).raan, oe(k).raan)
                            /\ ((tb.num * ta.den - ta.num * tb.den) * S
                                  - 360 * ta.den * tb.den)
                                 % (360 * S * ta.den * tb.den) = 0

C8_Witness ==
    /\ GenDone
    /\ call.num_planes >= 3
    /\ call.sats_per_plane >= 3
    /\ call.seed > 0
    /\ Len(call.result) >= 9
    /\ call.result[Len(call.result)].orbital_elements.true_anomaly.num > 0
    /\ call.result[Len(call.result)].orbital_elements.raan.num > 0

====
